---------------------------- MODULE Spec2Model ----------------------------
(***************************************************************************)
(* A model of the props collector of desrosj/wordpress-props.              *)
(*                                                                         *)
(* The pipeline modelled is getContributorsList() and its caller run()     *)
(* (src/unnamed/part_001), together with the process-wide collections      *)
(* `contributors` and `userData` they work on, and the string helper       *)
(* escapeForGql() (src/src/utils.js).                                      *)
(*                                                                         *)
(* JavaScript values are represented as follows.                           *)
(*   - a Set (insertion ordered, no duplicates) is a duplicate-free        *)
(*     sequence;                                                            *)
(*   - an object used as a table (userData, the directory response) is a   *)
(*     function whose DOMAIN is the set of own keys;                        *)
(*   - a string handled as a whole (a login, an e-mail) is a TLA+ string;   *)
(*     a string handled character by character (escapeForGql) is a         *)
(*     sequence of one-character strings;                                   *)
(*   - a text is the sequence of its lines, i.e. the text split at "\n".   *)
(***************************************************************************)
EXTENDS Integers, Sequences, FiniteSets, TLC

VARIABLES
    pc,               \* position of the single thread of control
    runs,             \* number of invocations of getContributorsList so far
    calls,            \* external calls issued so far, in order
    contributorData,  \* response of gh.getContributorData (local of the run)
    contributors,     \* module-level: category name -> Set of identities
    userData,         \* module-level: identity -> profile object
    i,                \* index of the outer loop in progress
    j,                \* index of the inner loop (comments of a linked issue)
    filtered,         \* result of the .filter() of reviews / comments
    usersRequested,   \* argument of gh.getUsersData
    githubUsers,      \* argument of getWPOrgData
    wpOrgData,        \* response of getWPOrgData
    unconnectedUsers, \* local list of the render step
    result,           \* what getContributorsList returned
    commentArg,       \* contributorsList handed to gh.commentProps
    string,           \* argument of escapeForGql
    escaped           \* the string escapeForGql resolved to

vars == << pc, runs, calls, contributorData, contributors, userData, i, j,
           filtered, usersRequested, githubUsers, wpOrgData,
           unconnectedUsers, result, commentArg, string, escaped >>

---------------------------------------------------------------------------
(* Bounds of the model. *)

\* Total number of nodes (commits, reviews, comments, linked issues and
\* linked-issue comments) in one contribution-query response.
MaxNodes == 5

\* Number of commits among them.
MaxCommits == 2

\* The same, for the specification in which getContributorsList is invoked
\* more than once in one process.
MaxNodesRerun == 2

\* Invocations of getContributorsList in one process (SpecRerun).
MaxRuns == 2

\* Length of the strings given to escapeForGql (SpecEscape).
MaxLen == 3

\* Total number of nodes in a contribution-query response that comes without
\* some of its node lists (SpecShape).
MaxNodesShape == 3

---------------------------------------------------------------------------
(* The values the external services can answer with. *)

Logins == { "alice", "bob", "github-actions" }

Emails == { "carol@example.org" }

Names == { "n1", "n2" }

Null == [ null |-> TRUE ]

\* commit.commit.author.user of a linked account.
User(login, name) == [ login |-> login, name |-> name ]

\* commit.commit.author
LinkedAuthor(login, name) ==
    [ user |-> User(login, name), name |-> name, email |-> "" ]

UnlinkedAuthor(name, email) ==
    [ user |-> Null, name |-> name, email |-> email ]

CommitAuthors ==
    { LinkedAuthor(l, n) : l \in Logins, n \in Names }
        \cup { UnlinkedAuthor(n, e) : n \in Names, e \in Emails }

RECURSIVE SeqsUpTo(_, _)
SeqsUpTo(S, n) ==
    IF n <= 0 THEN { <<>> }
    ELSE { <<>> } \cup { <<x>> \o s : x \in S, s \in SeqsUpTo(S, n - 1) }

\* A linked issue: its author and the authors of its comments.
LinkedIssues(n) ==
    { [ author |-> a, comments |-> cs ] : a \in Logins, cs \in SeqsUpTo(Logins, n) }

RECURSIVE IssueSeqs(_)
IssueSeqs(n) ==
    IF n <= 0 THEN { <<>> }
    ELSE { <<>> } \cup
         UNION { { <<iss>> \o rest : rest \in IssueSeqs(n - 1 - Len(iss.comments)) }
                 : iss \in LinkedIssues(n - 1) }

\* The response of the contribution query: the four node lists, and the
\* paths of the node lists the response came without (none when it is well
\* formed).  <<"closingIssuesReferences", k>> is the comments list of linked
\* issue k.  A list that is missing is held as the empty sequence.
NoData == [ commits |-> <<>>, reviews |-> <<>>, comments |-> <<>>,
            closingIssuesReferences |-> <<>>, missing |-> {} ]

\* Variant: every member access guarded, as the one of the commits is.
ReadableAlways(d, path) == TRUE

\* A member access such as contributorData.reviews.nodes succeeds when the
\* response holds the list; it throws a TypeError otherwise.
Readable(d, path) == path \notin d.missing

\* contributorData?.commits?.nodes || []
CommitNodes(d) == IF << "commits" >> \in d.missing THEN <<>> ELSE d.commits

---------------------------------------------------------------------------
(* Module-level state and helpers. *)

contributorTypes == << "committers", "reviewers", "commenters", "reporters" >>

EmptyContributors == [ t \in { "committers", "reviewers", "commenters", "reporters" } |-> <<>> ]

Range(s) == { s[k] : k \in 1..Len(s) }

\* Set.prototype.has
Has(set, x) == x \in Range(set)

\* Set.prototype.add: appends unless already a member.
SetAdd(set, x) == IF Has(set, x) THEN set ELSE Append(set, x)

\* userData[ key ] = value
Put(table, key, value) ==
    [ k \in DOMAIN table \cup { key } |-> IF k = key THEN value ELSE table[k] ]

EmptyTable == [ k \in {} |-> Null ]

\* Variant: the exclusion list left empty.
skippedUsersNone == {}

skippedUsers == { "github-actions" }

\* Variant: only the first contributor type is looked at.
contributorAlreadyPresentFirstOnly(c, username) ==
    Has(c[contributorTypes[1]], username)

\* Returns true when some category holds the username, undefined (falsy)
\* otherwise.
contributorAlreadyPresent(c, username) ==
    \E k \in 1..Len(contributorTypes) : Has(c[contributorTypes[k]], username)

\* Variant: the exclusion list is consulted, prior membership is not.
skipUserListOnly(c, username) == username \in skippedUsers

skipUser(c, username) ==
    IF username \notin skippedUsers /\ ~ contributorAlreadyPresent(c, username)
    THEN FALSE
    ELSE TRUE

---------------------------------------------------------------------------
\* The module is loaded: the collections are created empty, run() is not yet
\* called.
Loaded ==
    /\ pc = "init"
    /\ runs = 0
    /\ calls = <<>>
    /\ contributorData = NoData
    /\ contributors = EmptyContributors
    /\ userData = EmptyTable
    /\ i = 0
    /\ j = 0
    /\ filtered = <<>>
    /\ usersRequested = <<>>
    /\ githubUsers = <<>>
    /\ wpOrgData = EmptyTable
    /\ unconnectedUsers = <<>>
    /\ result = [ kind |-> "none" ]
    /\ commentArg = [ kind |-> "none" ]

Init ==
    /\ Loaded
    /\ string = <<>>
    /\ escaped = <<>>

\* run() enters getContributorsList, which issues the contribution query.
CallGetContributorData ==
    /\ pc = "init"
    /\ pc' = "awaitContributorData"
    /\ runs' = runs + 1
    /\ calls' = Append(calls, "getContributorData")
    /\ UNCHANGED << contributorData, contributors, userData, i, j, filtered,
                    usersRequested, githubUsers, wpOrgData, unconnectedUsers,
                    result, commentArg,
                    string, escaped >>

\* A failed call: the awaited promise rejects, nothing in getContributorsList
\* or run() catches it, the run ends.
Reject ==
    /\ pc \in { "awaitContributorData", "awaitUsersData", "awaitWPOrgData",
                "awaitCommentProps" }
    /\ pc' = "failed"
    /\ UNCHANGED << runs, calls, contributorData, contributors, userData, i, j,
                    filtered, usersRequested, githubUsers, wpOrgData,
                    unconnectedUsers, result, commentArg,
                    string, escaped >>

\* The contribution query answers with at most n nodes in total, at most
\* MaxCommits of them commits.
ReturnGetContributorData(n) ==
    /\ pc = "awaitContributorData"
    /\ \E cs \in SeqsUpTo(CommitAuthors, IF n < MaxCommits THEN n ELSE MaxCommits) :
       \E rs \in SeqsUpTo(Logins, n - Len(cs)) :
       \E ms \in SeqsUpTo(Logins, n - Len(cs) - Len(rs)) :
       \E is \in IssueSeqs(n - Len(cs) - Len(rs) - Len(ms)) :
          contributorData' = [ commits |-> cs, reviews |-> rs, comments |-> ms,
                               closingIssuesReferences |-> is, missing |-> {} ]
    /\ pc' = "commits"
    /\ i' = 1
    /\ UNCHANGED << runs, calls, contributors, userData, j, filtered,
                    usersRequested, githubUsers, wpOrgData, unconnectedUsers,
                    result, commentArg,
                    string, escaped >>

\* One iteration of the loop over the commits.
ProcessCommit ==
    /\ pc = "commits"
    /\ i <= Len(CommitNodes(contributorData))
    /\ LET author == CommitNodes(contributorData)[i] IN
         IF author.user = Null
         THEN /\ contributors' = [ contributors EXCEPT
                     !.committers = SetAdd(@, author.email) ]
              /\ userData' = Put(userData, author.email,
                                 [ name |-> author.name, email |-> author.email ])
         ELSE IF skipUser(contributors, author.user.login)
              THEN UNCHANGED << contributors, userData >>
              ELSE /\ contributors' = [ contributors EXCEPT
                          !.committers = SetAdd(@, author.user.login) ]
                   /\ userData' = Put(userData, author.user.login, author.user)
    /\ i' = i + 1
    /\ UNCHANGED << pc, runs, calls, contributorData, j, filtered,
                    usersRequested, githubUsers, wpOrgData, unconnectedUsers,
                    result, commentArg,
                    string, escaped >>

\* reviews.nodes.filter( review => !skipUser( review.author.login ) ): the
\* whole list is filtered before the first insertion.
FilterReviews ==
    /\ pc = "commits"
    /\ i > Len(CommitNodes(contributorData))
    /\ Readable(contributorData, << "reviews" >>)
    /\ filtered' = SelectSeq(contributorData.reviews,
                             LAMBDA login : ~ skipUser(contributors, login))
    /\ pc' = "reviews"
    /\ i' = 1
    /\ UNCHANGED << runs, calls, contributorData, contributors, userData, j,
                    usersRequested, githubUsers, wpOrgData, unconnectedUsers,
                    result, commentArg,
                    string, escaped >>

\* .forEach( review => contributors.reviewers.add( review.author.login ) )
AddReviewer ==
    /\ pc = "reviews"
    /\ i <= Len(filtered)
    /\ contributors' = [ contributors EXCEPT !.reviewers = SetAdd(@, filtered[i]) ]
    /\ i' = i + 1
    /\ UNCHANGED << pc, runs, calls, contributorData, userData, j, filtered,
                    usersRequested, githubUsers, wpOrgData, unconnectedUsers,
                    result, commentArg,
                    string, escaped >>

FilterComments ==
    /\ pc = "reviews"
    /\ i > Len(filtered)
    /\ Readable(contributorData, << "comments" >>)
    /\ filtered' = SelectSeq(contributorData.comments,
                             LAMBDA login : ~ skipUser(contributors, login))
    /\ pc' = "comments"
    /\ i' = 1
    /\ UNCHANGED << runs, calls, contributorData, contributors, userData, j,
                    usersRequested, githubUsers, wpOrgData, unconnectedUsers,
                    result, commentArg,
                    string, escaped >>

AddCommenter ==
    /\ pc = "comments"
    /\ i <= Len(filtered)
    /\ contributors' = [ contributors EXCEPT !.commenters = SetAdd(@, filtered[i]) ]
    /\ i' = i + 1
    /\ UNCHANGED << pc, runs, calls, contributorData, userData, j, filtered,
                    usersRequested, githubUsers, wpOrgData, unconnectedUsers,
                    result, commentArg,
                    string, escaped >>

\* The loop over the linked issues starts.
EnterLinkedIssues ==
    /\ pc = "comments"
    /\ i > Len(filtered)
    /\ Readable(contributorData, << "closingIssuesReferences" >>)
    /\ pc' = "issues"
    /\ i' = 1
    /\ filtered' = <<>>
    /\ UNCHANGED << runs, calls, contributorData, contributors, userData, j,
                    usersRequested, githubUsers, wpOrgData, unconnectedUsers,
                    result, commentArg,
                    string, escaped >>

\* The author of linked issue i.
ProcessIssueAuthor ==
    /\ pc = "issues"
    /\ i <= Len(contributorData.closingIssuesReferences)
    /\ LET linkedIssue == contributorData.closingIssuesReferences[i] IN
         contributors' =
            IF ~ skipUser(contributors, linkedIssue.author)
            THEN [ contributors EXCEPT !.reporters = SetAdd(@, linkedIssue.author) ]
            ELSE contributors
    /\ pc' = "issueComments"
    /\ j' = 1
    /\ UNCHANGED << runs, calls, contributorData, userData, i, filtered,
                    usersRequested, githubUsers, wpOrgData, unconnectedUsers,
                    result, commentArg,
                    string, escaped >>

\* Comment j of linked issue i.
ProcessIssueComment ==
    /\ pc = "issueComments"
    /\ Readable(contributorData, << "closingIssuesReferences", i >>)
    /\ j <= Len(contributorData.closingIssuesReferences[i].comments)
    /\ LET login == contributorData.closingIssuesReferences[i].comments[j] IN
         contributors' =
            IF skipUser(contributors, login)
            THEN contributors
            ELSE [ contributors EXCEPT !.commenters = SetAdd(@, login) ]
    /\ j' = j + 1
    /\ UNCHANGED << pc, runs, calls, contributorData, userData, i, filtered,
                    usersRequested, githubUsers, wpOrgData, unconnectedUsers,
                    result, commentArg,
                    string, escaped >>

NextLinkedIssue ==
    /\ pc = "issueComments"
    /\ Readable(contributorData, << "closingIssuesReferences", i >>)
    /\ j > Len(contributorData.closingIssuesReferences[i].comments)
    /\ pc' = "issues"
    /\ i' = i + 1
    /\ j' = 0
    /\ UNCHANGED << runs, calls, contributorData, contributors, userData,
                    filtered, usersRequested, githubUsers, wpOrgData,
                    unconnectedUsers, result, commentArg,
                    string, escaped >>

\* All four channels are scanned.
FinishAggregation ==
    /\ pc = "issues"
    /\ i > Len(contributorData.closingIssuesReferences)
    /\ pc' = "aggregated"
    /\ i' = 0
    /\ UNCHANGED << runs, calls, contributorData, contributors, userData, j,
                    filtered, usersRequested, githubUsers, wpOrgData,
                    unconnectedUsers, result, commentArg,
                    string, escaped >>

Aggregate ==
    \/ ProcessCommit
    \/ FilterReviews
    \/ AddReviewer
    \/ FilterComments
    \/ AddCommenter
    \/ EnterLinkedIssues
    \/ ProcessIssueAuthor
    \/ ProcessIssueComment
    \/ NextLinkedIssue
    \/ FinishAggregation

\* Variant: the committers are asked for as well.
EveryoneIncludingCommitters(c) ==
    c.committers \o c.reviewers \o c.commenters \o c.reporters

\* [ ...contributors.reviewers, ...contributors.commenters, ...contributors.reporters ]
EveryoneElse(c) == c.reviewers \o c.commenters \o c.reporters

\* "We already have user info for committers, we need to grab it for everyone
\* else": the batch profile request is issued when the list is not empty.
\* The node lists of the contribution-query response are not read from here
\* on; the model drops them.
CallGetUsersData ==
    /\ pc = "aggregated"
    /\ Len(EveryoneElse(contributors)) > 0
    /\ usersRequested' = EveryoneElse(contributors)
    /\ calls' = Append(calls, "getUsersData")
    /\ pc' = "awaitUsersData"
    /\ contributorData' = [ NoData EXCEPT !.missing = contributorData.missing ]
    /\ UNCHANGED << runs, contributors, userData, i, j, filtered, githubUsers,
                    wpOrgData, unconnectedUsers, result, commentArg,
                    string, escaped >>

SkipGetUsersData ==
    /\ pc = "aggregated"
    /\ ~ (Len(EveryoneElse(contributors)) > 0)
    /\ pc' = "collect"
    /\ contributorData' = [ NoData EXCEPT !.missing = contributorData.missing ]
    /\ UNCHANGED << runs, calls, contributors, userData, i, j, filtered,
                    usersRequested, githubUsers, wpOrgData, unconnectedUsers,
                    result, commentArg,
                    string, escaped >>

\* Object.values( contributorData ).forEach( user => userData[ user.login ] = user )
MergeUsers(table, users) ==
    [ k \in DOMAIN table \cup { u.login : u \in users } |->
        IF \E u \in users : u.login = k
        THEN CHOOSE u \in users : u.login = k
        ELSE table[k] ]

\* The batch profile request answers with a user object for some or all of
\* the logins asked for.
ReturnGetUsersData ==
    /\ pc = "awaitUsersData"
    /\ \E returned \in SUBSET Range(usersRequested) :
          userData' = MergeUsers(userData, { User(l, "n1") : l \in returned })
    /\ pc' = "collect"
    /\ UNCHANGED << runs, calls, contributorData, contributors, i, j, filtered,
                    usersRequested, githubUsers, wpOrgData, unconnectedUsers,
                    result, commentArg,
                    string, escaped >>

\* Variant: the committers are left out of the list.
FlattenWithoutCommitters(c) == c.reviewers \o c.commenters \o c.reporters

\* Object.keys( contributors ).forEach( key => contributors[ key ].forEach( push ) )
Flatten(c) == c.committers \o c.reviewers \o c.commenters \o c.reporters

\* "No contributors were gathered."
NoContributors(users) == Len(users) = 0

ReturnUndefined ==
    /\ pc = "collect"
    /\ NoContributors(Flatten(contributors))
    /\ githubUsers' = Flatten(contributors)
    /\ result' = [ kind |-> "undefined" ]
    /\ pc' = "returned"
    /\ UNCHANGED << runs, calls, contributorData, contributors, userData, i, j,
                    filtered, usersRequested, wpOrgData, unconnectedUsers,
                    commentArg,
                    string, escaped >>

CallGetWPOrgData ==
    /\ pc = "collect"
    /\ ~ NoContributors(Flatten(contributors))
    /\ githubUsers' = Flatten(contributors)
    /\ calls' = Append(calls, "getWPOrgData")
    /\ pc' = "awaitWPOrgData"
    /\ UNCHANGED << runs, contributorData, contributors, userData, i, j,
                    filtered, usersRequested, wpOrgData, unconnectedUsers,
                    result, commentArg,
                    string, escaped >>

\* The directory's literal false: "not linked".
NotLinked == [ notLinked |-> TRUE ]

\* The directory's record for a linked login.
Linked(login) == [ slug |-> login \o "-wp" ]

\* Object.prototype.hasOwnProperty.call( object, key )
HasOwnProperty(object, key) == key \in DOMAIN object

\* "Add each contributor's wp.org username to their user data."
AttachDotOrg(table, data) ==
    [ contributor \in DOMAIN table |->
        IF HasOwnProperty(data, contributor) /\ data[contributor] # NotLinked
        THEN [ f \in DOMAIN table[contributor] \cup { "dotOrg" } |->
                 IF f = "dotOrg" THEN data[contributor].slug
                 ELSE table[contributor][f] ]
        ELSE table[contributor] ]

\* The directory answers, for some or all of the identities asked for, with a
\* record holding a slug or with false.
ReturnGetWPOrgData ==
    /\ pc = "awaitWPOrgData"
    /\ \E known \in SUBSET Range(githubUsers) :
       \E linked \in SUBSET known :
          wpOrgData' = [ k \in known |-> IF k \in linked THEN Linked(k) ELSE NotLinked ]
    /\ userData' = AttachDotOrg(userData, wpOrgData')
    /\ pc' = "render"
    /\ UNCHANGED << runs, calls, contributorData, contributors, i, j, filtered,
                    usersRequested, githubUsers, unconnectedUsers, result,
                    commentArg,
                    string, escaped >>

\* priority.replace( /^./, char => char.toUpperCase() )
Capitalize(priority) ==
    CASE priority = "committers" -> "Committers"
      [] priority = "reviewers"  -> "Reviewers"
      [] priority = "commenters" -> "Commenters"
      [] priority = "reporters"  -> "Reporters"

\* '# ' + Capitalize( priority ), the line the trailing '\n' ends.
Header(priority) == "# " \o Capitalize(priority)

\* contributors[ priority ].length === 0: a Set has no length property (its
\* size is .size), so undefined is compared with 0 and the test is false for
\* every Set, empty or not.
LengthIsZero(set) == FALSE

Trailer(username, dotOrg) ==
    "Co-authored-by: " \o username \o " <" \o dotOrg \o "@git.wordpress.org>"

\* The callback of .map( username => ... ): the trailer, or undefined for a
\* user without dotOrg; an undefined element is joined as the empty string.
PropsEntry(table, username) ==
    IF ~ HasOwnProperty(table[username], "dotOrg")
    THEN ""
    ELSE Trailer(username, table[username].dotOrg)

\* Array.prototype.join( '\n' ) of one-line elements, as a list of lines: the
\* empty array joins to the empty string, which is one empty line.
JoinLines(entries) == IF Len(entries) = 0 THEN << "" >> ELSE entries

\* The lines of one category's section.
SectionLines(table, set, priority) ==
    IF LengthIsZero(set)
    THEN << "" >>
    ELSE << Header(priority) >> \o
         JoinLines([ k \in 1..Len(set) |-> PropsEntry(table, set[k]) ])

\* The users of one category pushed to unconnectedUsers.
Unconnected(table, set) ==
    SelectSeq(set, LAMBDA username : ~ HasOwnProperty(table[username], "dotOrg"))

\* contributorTypes.map( ... ).join( '\n\n' ), as a list of lines.
RenderLines(table, c) ==
    SectionLines(table, c.committers, "committers") \o << "" >> \o
    SectionLines(table, c.reviewers, "reviewers") \o << "" >> \o
    SectionLines(table, c.commenters, "commenters") \o << "" >> \o
    SectionLines(table, c.reporters, "reporters")

RenderUnconnected(table, c) ==
    Unconnected(table, c.committers) \o Unconnected(table, c.reviewers) \o
    Unconnected(table, c.commenters) \o Unconnected(table, c.reporters)

\* const { dotOrg } = userData[ username ] throws a TypeError when userData
\* holds no entry for the username.
RenderThrows(table, c) == \E username \in Range(Flatten(c)) : username \notin DOMAIN table

Render ==
    /\ pc = "render"
    /\ IF RenderThrows(userData, contributors)
       THEN /\ pc' = "failed"
            /\ UNCHANGED << result, unconnectedUsers >>
       ELSE /\ pc' = "returned"
            /\ result' = [ kind |-> "text", lines |-> RenderLines(userData, contributors) ]
            /\ unconnectedUsers' = RenderUnconnected(userData, contributors)
    /\ UNCHANGED << runs, calls, contributorData, contributors, userData, i, j,
                    filtered, usersRequested, githubUsers, wpOrgData, commentArg,
                    string, escaped >>

\* Variant: run() catches a failure and comments all the same.
CallCommentPropsAfterFailure ==
    /\ pc \in { "returned", "failed" }
    /\ calls' = Append(calls, "commentProps")
    /\ commentArg' = result
    /\ pc' = "awaitCommentProps"
    /\ UNCHANGED << runs, contributorData, contributors, userData, i, j,
                    filtered, usersRequested, githubUsers, wpOrgData,
                    unconnectedUsers, result, string, escaped >>

\* run(): await gh.commentProps( { context, contributorsList } )
CallCommentProps ==
    /\ pc = "returned"
    /\ calls' = Append(calls, "commentProps")
    /\ commentArg' = result
    /\ pc' = "awaitCommentProps"
    /\ UNCHANGED << runs, contributorData, contributors, userData, i, j,
                    filtered, usersRequested, githubUsers, wpOrgData,
                    unconnectedUsers, result,
                    string, escaped >>

ReturnCommentProps ==
    /\ pc = "awaitCommentProps"
    /\ pc' = "done"
    /\ UNCHANGED << runs, calls, contributorData, contributors, userData, i, j,
                    filtered, usersRequested, githubUsers, wpOrgData,
                    unconnectedUsers, result, commentArg,
                    string, escaped >>

Reconcile ==
    \/ CallGetUsersData
    \/ SkipGetUsersData
    \/ ReturnGetUsersData
    \/ ReturnUndefined
    \/ CallGetWPOrgData
    \/ ReturnGetWPOrgData

Next ==
    \/ CallGetContributorData
    \/ ReturnGetContributorData(MaxNodes)
    \/ Reject
    \/ Aggregate
    \/ Reconcile
    \/ Render
    \/ CallCommentProps
    \/ ReturnCommentProps

Spec == Init /\ [][Next]_vars

---------------------------------------------------------------------------
(* getContributorsList invoked again in the same process: the module-level  *)
(* collections are created once, when the module is loaded, and every       *)
(* invocation works on them; the locals of the invocation are fresh.        *)

Reinvoke ==
    /\ pc = "returned"
    /\ runs < MaxRuns
    /\ runs' = runs + 1
    /\ calls' = Append(calls, "getContributorData")
    /\ pc' = "awaitContributorData"
    /\ i' = 0
    /\ j' = 0
    /\ filtered' = <<>>
    /\ usersRequested' = <<>>
    /\ githubUsers' = <<>>
    /\ wpOrgData' = EmptyTable
    /\ unconnectedUsers' = <<>>
    /\ result' = [ kind |-> "none" ]
    /\ UNCHANGED << contributorData, contributors, userData, commentArg,
                    string, escaped >>

NextRerun ==
    \/ CallGetContributorData
    \/ ReturnGetContributorData(MaxNodesRerun)
    \/ Reject
    \/ Aggregate
    \/ Reconcile
    \/ Render
    \/ CallCommentProps
    \/ ReturnCommentProps
    \/ Reinvoke

SpecRerun == Init /\ [][NextRerun]_vars

---------------------------------------------------------------------------
(* A contribution-query response that comes without some of its node lists. *)

\* The paths of the node lists of a response with the given linked issues.
NodeListPaths(is) ==
    { << "commits" >>, << "reviews" >>, << "comments" >>,
      << "closingIssuesReferences" >> }
        \cup { << "closingIssuesReferences", k >> : k \in 1..Len(is) }

\* The contribution query answers with at most n nodes and without at least
\* one node list.
ReturnMalformed(n) ==
    /\ pc = "awaitContributorData"
    /\ \E cs \in SeqsUpTo(CommitAuthors, IF n < MaxCommits THEN n ELSE MaxCommits) :
       \E rs \in SeqsUpTo(Logins, n - Len(cs)) :
       \E ms \in SeqsUpTo(Logins, n - Len(cs) - Len(rs)) :
       \E is \in IssueSeqs(n - Len(cs) - Len(rs) - Len(ms)) :
       \E gone \in SUBSET NodeListPaths(is) \ { {} } :
          /\ << "commits" >> \in gone => cs = <<>>
          /\ << "reviews" >> \in gone => rs = <<>>
          /\ << "comments" >> \in gone => ms = <<>>
          /\ << "closingIssuesReferences" >> \in gone => is = <<>>
          /\ \A k \in 1..Len(is) :
                << "closingIssuesReferences", k >> \in gone => is[k].comments = <<>>
          /\ contributorData' = [ commits |-> cs, reviews |-> rs, comments |-> ms,
                                  closingIssuesReferences |-> is, missing |-> gone ]
    /\ pc' = "commits"
    /\ i' = 1
    /\ UNCHANGED << runs, calls, contributors, userData, j, filtered,
                    usersRequested, githubUsers, wpOrgData, unconnectedUsers,
                    result, commentArg, string, escaped >>

\* The scan reaches a node list the response does not hold: the member
\* access throws a TypeError, which nothing catches.
ThrowTypeError ==
    /\ \/ /\ pc = "commits"
          /\ i > Len(CommitNodes(contributorData))
          /\ ~ Readable(contributorData, << "reviews" >>)
       \/ /\ pc = "reviews"
          /\ i > Len(filtered)
          /\ ~ Readable(contributorData, << "comments" >>)
       \/ /\ pc = "comments"
          /\ i > Len(filtered)
          /\ ~ Readable(contributorData, << "closingIssuesReferences" >>)
       \/ /\ pc = "issueComments"
          /\ ~ Readable(contributorData, << "closingIssuesReferences", i >>)
    /\ pc' = "failed"
    /\ UNCHANGED << runs, calls, contributorData, contributors, userData, i, j,
                    filtered, usersRequested, githubUsers, wpOrgData,
                    unconnectedUsers, result, commentArg, string, escaped >>

NextShape ==
    \/ CallGetContributorData
    \/ ReturnMalformed(MaxNodesShape)
    \/ Reject
    \/ Aggregate
    \/ ThrowTypeError
    \/ Reconcile
    \/ Render
    \/ CallCommentProps
    \/ ReturnCommentProps

SpecShape == Init /\ [][NextShape]_vars

---------------------------------------------------------------------------
(* escapeForGql, applied to every string of at most MaxLen characters.  The *)
(* function is declared async: what is modelled is the string its promise   *)
(* resolves to.                                                             *)

Letters == { "a", "Z" }

Digits == { "7" }

Alphabet == Letters \cup Digits \cup { ".", "/", "-", "_", "[" }

\* Variant: the regular expression without its g flag, which replaces the
\* first match only.
RECURSIVE ReplaceFirst(_)
ReplaceFirst(str) ==
    IF Len(str) = 0 THEN <<>>
    ELSE IF Head(str) \in { ".", "/", "-" }
         THEN << "_" >> \o Tail(str)
         ELSE << Head(str) >> \o ReplaceFirst(Tail(str))

\* string.replace( /[./-]/g, '_' ): every character of the class is replaced.
RECURSIVE ReplaceAll(_)
ReplaceAll(str) ==
    IF Len(str) = 0 THEN <<>>
    ELSE << IF Head(str) \in { ".", "/", "-" } THEN "_" ELSE Head(str) >>
            \o ReplaceAll(Tail(str))

escapeForGql(str) == << "_" >> \o ReplaceAll(str)

InitEscape ==
    /\ Loaded
    /\ string \in SeqsUpTo(Alphabet, MaxLen)
    /\ escaped = <<>>

Escape ==
    /\ escaped = <<>>
    /\ escaped' = escapeForGql(string)
    /\ UNCHANGED << pc, runs, calls, contributorData, contributors, userData,
                    i, j, filtered, usersRequested, githubUsers, wpOrgData,
                    unconnectedUsers, result, commentArg, string >>

NextEscape == Escape

SpecEscape == InitEscape /\ [][NextEscape]_vars

---------------------------------------------------------------------------
(* The aliases of one batch profile request: escapeForGql applied to every  *)
(* login of the list the request is built from.  A login is a sequence of   *)
(* characters here; the list holds the members of three Sets, so no login   *)
(* is in it twice.                                                          *)

MaxLoginLen == 2

MaxBatch == 2

LoginChars == { "a", "-", "_", "." }

LoginTexts == SeqsUpTo(LoginChars, MaxLoginLen) \ { <<>> }

Batches ==
    { b \in SeqsUpTo(LoginTexts, MaxBatch) :
        b # <<>> /\ \A k, l \in 1..Len(b) : k # l => b[k] # b[l] }

InitAlias ==
    /\ pc = "init"
    /\ runs = 0
    /\ calls = <<>>
    /\ contributorData = NoData
    /\ contributors = EmptyContributors
    /\ userData = EmptyTable
    /\ i = 0
    /\ j = 0
    /\ filtered = <<>>
    /\ usersRequested \in Batches
    /\ githubUsers = <<>>
    /\ wpOrgData = EmptyTable
    /\ unconnectedUsers = <<>>
    /\ result = [ kind |-> "none" ]
    /\ commentArg = [ kind |-> "none" ]
    /\ string = <<>>
    /\ escaped = <<>>

\* [ ... ].map( ( user ) => escapeForGql( user ) + ': user(login: ...' ):
\* one alias per login, in the order of the list.
BuildAliases ==
    /\ pc = "init"
    /\ escaped' = [ k \in 1..Len(usersRequested) |->
                        escapeForGql(usersRequested[k]) ]
    /\ pc' = "awaitUsersData"
    /\ UNCHANGED << runs, calls, contributorData, contributors, userData,
                    i, j, filtered, usersRequested, githubUsers, wpOrgData,
                    unconnectedUsers, result, commentArg, string >>

NextAlias == BuildAliases

SpecAlias == InitAlias /\ [][NextAlias]_vars

---------------------------------------------------------------------------
(* run() of src/index.js, up to the end of the scan of the four channels.   *)
(* Its skipUser and contributorAlreadyPresent are declared async: a call    *)
(* evaluates to a promise, and it is the promise that the callers test.     *)

MaxNodesAsync == 3

\* The JavaScript values a test can meet here.
Bool(b) == [ bool |-> b ]

Undefined == [ undefined |-> TRUE ]

\* The promise an async function returns, with the value it resolves to.
Promise(v) == [ promise |-> v ]

\* ToBoolean: an object, a promise included, is truthy; undefined is falsy.
Truthy(x) ==
    IF "promise" \in DOMAIN x THEN TRUE
    ELSE IF "undefined" \in DOMAIN x THEN FALSE
    ELSE x.bool

\* async function contributorAlreadyPresent: resolves to true, or to
\* undefined when the loop ends without a return.
contributorAlreadyPresentAsync(c, username) ==
    Promise(IF \E k \in 1..Len(contributorTypes) :
                   Has(c[contributorTypes[k]], username)
            THEN Bool(TRUE)
            ELSE Undefined)

\* async function skipUser: the promise of contributorAlreadyPresent is
\* negated without await.
skipUserAsync(c, username) ==
    Promise(IF /\ username \notin skippedUsers
               /\ ~ Truthy(contributorAlreadyPresentAsync(c, username))
            THEN Bool(FALSE)
            ELSE Bool(TRUE))

\* octokit.graphql( ... ) is called with the contribution query.
RunCallGraphql ==
    /\ pc = "init"
    /\ pc' = "awaitContributorData"
    /\ runs' = runs + 1
    /\ UNCHANGED << calls, contributorData, contributors, userData, i, j,
                    filtered, usersRequested, githubUsers, wpOrgData,
                    unconnectedUsers, result, commentArg, string, escaped >>

\* The query answers with at most n nodes in total.
RunReturnGraphql(n) ==
    /\ pc = "awaitContributorData"
    /\ \E cs \in SeqsUpTo(CommitAuthors, IF n < MaxCommits THEN n ELSE MaxCommits) :
       \E rs \in SeqsUpTo(Logins, n - Len(cs)) :
       \E ms \in SeqsUpTo(Logins, n - Len(cs) - Len(rs)) :
       \E is \in IssueSeqs(n - Len(cs) - Len(rs) - Len(ms)) :
          contributorData' = [ commits |-> cs, reviews |-> rs, comments |-> ms,
                               closingIssuesReferences |-> is, missing |-> {} ]
    /\ pc' = "commits"
    /\ i' = 1
    /\ UNCHANGED << runs, calls, contributors, userData, j, filtered,
                    usersRequested, githubUsers, wpOrgData, unconnectedUsers,
                    result, commentArg, string, escaped >>

\* One iteration of the loop over the commits.
RunProcessCommit ==
    /\ pc = "commits"
    /\ i <= Len(contributorData.commits)
    /\ LET author == contributorData.commits[i] IN
         IF author.user = Null
         THEN /\ contributors' = [ contributors EXCEPT
                     !.committers = SetAdd(@, author.email) ]
              /\ userData' = Put(userData, author.email,
                                 [ name |-> author.name, email |-> author.email ])
         ELSE IF Truthy(skipUserAsync(contributors, author.user.login))
              THEN UNCHANGED << contributors, userData >>
              ELSE /\ contributors' = [ contributors EXCEPT
                          !.committers = SetAdd(@, author.user.login) ]
                   /\ userData' = Put(userData, author.user.login, author.user)
    /\ i' = i + 1
    /\ UNCHANGED << pc, runs, calls, contributorData, j, filtered,
                    usersRequested, githubUsers, wpOrgData, unconnectedUsers,
                    result, commentArg, string, escaped >>

\* set.add of every member of a list, in order.
RECURSIVE AddAll(_, _)
AddAll(set, list) ==
    IF list = <<>> THEN set ELSE AddAll(SetAdd(set, Head(list)), Tail(list))

\* nodes.filter( x => !skipUser( x.author.login ) )
RunFilter(c, nodes) ==
    SelectSeq(nodes, LAMBDA login : ~ Truthy(skipUserAsync(c, login)))

\* reviews.nodes.filter( ... ).forEach( review => contributors.reviewers.add( ... ) )
RunProcessReviews ==
    /\ pc = "commits"
    /\ i > Len(contributorData.commits)
    /\ filtered' = RunFilter(contributors, contributorData.reviews)
    /\ contributors' = [ contributors EXCEPT !.reviewers = AddAll(@, filtered') ]
    /\ pc' = "comments"
    /\ UNCHANGED << runs, calls, contributorData, userData, i, j,
                    usersRequested, githubUsers, wpOrgData, unconnectedUsers,
                    result, commentArg, string, escaped >>

\* comments.nodes.filter( ... ).forEach( comment => contributors.commenters.add( ... ) )
RunProcessComments ==
    /\ pc = "comments"
    /\ filtered' = RunFilter(contributors, contributorData.comments)
    /\ contributors' = [ contributors EXCEPT !.commenters = AddAll(@, filtered') ]
    /\ pc' = "issues"
    /\ i' = 1
    /\ UNCHANGED << runs, calls, contributorData, userData, j,
                    usersRequested, githubUsers, wpOrgData, unconnectedUsers,
                    result, commentArg, string, escaped >>

\* The inner loop over the comments of a linked issue.
RECURSIVE RunIssueComments(_, _)
RunIssueComments(c, nodes) ==
    IF nodes = <<>> THEN c
    ELSE IF Truthy(skipUserAsync(c, Head(nodes)))
         THEN RunIssueComments(c, Tail(nodes))
         ELSE RunIssueComments([ c EXCEPT !.commenters = SetAdd(@, Head(nodes)) ],
                               Tail(nodes))

\* One iteration of the loop over the linked issues: the author, then the
\* comments.
RunProcessLinkedIssue ==
    /\ pc = "issues"
    /\ i <= Len(contributorData.closingIssuesReferences)
    /\ LET linkedIssue == contributorData.closingIssuesReferences[i]
           withAuthor ==
               IF ~ Truthy(skipUserAsync(contributors, linkedIssue.author))
               THEN [ contributors EXCEPT
                        !.reporters = SetAdd(@, linkedIssue.author) ]
               ELSE contributors
       IN  contributors' = RunIssueComments(withAuthor, linkedIssue.comments)
    /\ i' = i + 1
    /\ UNCHANGED << pc, runs, calls, contributorData, userData, j, filtered,
                    usersRequested, githubUsers, wpOrgData, unconnectedUsers,
                    result, commentArg, string, escaped >>

\* The four channels are scanned.
RunFinishAggregation ==
    /\ pc = "issues"
    /\ i > Len(contributorData.closingIssuesReferences)
    /\ pc' = "aggregated"
    /\ i' = 0
    /\ UNCHANGED << runs, calls, contributorData, contributors, userData, j,
                    filtered, usersRequested, githubUsers, wpOrgData,
                    unconnectedUsers, result, commentArg, string, escaped >>

NextAsync ==
    \/ RunCallGraphql
    \/ RunReturnGraphql(MaxNodesAsync)
    \/ Reject
    \/ RunProcessCommit
    \/ RunProcessReviews
    \/ RunProcessComments
    \/ RunProcessLinkedIssue
    \/ RunFinishAggregation

SpecAsync == Init /\ [][NextAsync]_vars

---------------------------------------------------------------------------
(* Vocabulary of the properties. *)

Types == Range(contributorTypes)

\* The categories that hold identity x.
CategoriesOf(c, x) == { t \in Types : Has(c[t], x) }

\* The logins that authored a commit through a linked account.
LinkedCommitters(d) ==
    { d.commits[k].user.login : k \in { n \in 1..Len(d.commits) : d.commits[n].user # Null } }

IssueAuthors(d) ==
    { d.closingIssuesReferences[k].author : k \in 1..Len(d.closingIssuesReferences) }

IssueCommenters(d) ==
    UNION { Range(d.closingIssuesReferences[k].comments)
            : k \in 1..Len(d.closingIssuesReferences) }

\* The categories the events of a login map to: a commit to committers, a
\* review to reviewers, a comment on the pull request or on a linked issue to
\* commenters, a linked issue to reporters.
RolesPlayed(d, login) ==
    { t \in Types :
        \/ t = "committers" /\ login \in LinkedCommitters(d)
        \/ t = "reviewers"  /\ login \in Range(d.reviews)
        \/ t = "commenters" /\ login \in Range(d.comments) \cup IssueCommenters(d)
        \/ t = "reporters"  /\ login \in IssueAuthors(d) }

\* The channels a login appears in, the two kinds of comment told apart.
ChannelsOf(d, login) ==
    { ch \in { "commit", "review", "comment", "issue", "issueComment" } :
        \/ ch = "commit"       /\ login \in LinkedCommitters(d)
        \/ ch = "review"       /\ login \in Range(d.reviews)
        \/ ch = "comment"      /\ login \in Range(d.comments)
        \/ ch = "issue"        /\ login \in IssueAuthors(d)
        \/ ch = "issueComment" /\ login \in IssueCommenters(d) }

Rank(t) == CHOOSE k \in 1..Len(contributorTypes) : contributorTypes[k] = t

\* The role of highest priority among a non-empty set of roles.
Highest(roles) == CHOOSE t \in roles : \A u \in roles : Rank(t) <= Rank(u)

\* The user object of the first commit a login authored.
FirstCommitUser(d, login) ==
    LET k == CHOOSE n \in 1..Len(d.commits) :
                 /\ d.commits[n].user # Null
                 /\ d.commits[n].user.login = login
                 /\ \A m \in 1..(n - 1) :
                       d.commits[m].user = Null \/ d.commits[m].user.login # login
    IN  d.commits[k].user

---------------------------------------------------------------------------
(* C1: while the channels are scanned and afterwards, no platform login is  *)
(* a member of more than one of committers, reviewers, commenters and       *)
(* reporters.                                                               *)
C1_OneCategoryPerLogin ==
    \A login \in Logins : Cardinality(CategoriesOf(contributors, login)) <= 1

\* A login that appears in three channels or more is met again while the
\* linked issues are scanned, after it was filed.
C1_Witness ==
    /\ pc = "issueComments"
    /\ \E login \in Logins :
          /\ Cardinality(ChannelsOf(contributorData, login)) >= 3
          /\ CategoriesOf(contributors, login) # {}

(* C2: after aggregation every non-excluded login that appears in a channel *)
(* is a member of exactly one category, the one of highest priority among   *)
(* the roles it played.                                                     *)
C2_HighestPriorityRole ==
    pc = "aggregated" =>
        \A login \in Logins \ skippedUsers :
            RolesPlayed(contributorData, login) # {} =>
                CategoriesOf(contributors, login)
                    = { Highest(RolesPlayed(contributorData, login)) }

(* C3: github-actions is never a member of a category, is never asked for   *)
(* from the directory, is never rendered and is never listed as unresolved. *)
C3_BotNowhere ==
    /\ CategoriesOf(contributors, "github-actions") = {}
    /\ ~ Has(usersRequested, "github-actions")
    /\ ~ Has(githubUsers, "github-actions")
    /\ ~ Has(unconnectedUsers, "github-actions")
    /\ "github-actions" \notin DOMAIN userData
    /\ result.kind = "text" =>
          \A n \in 1..Len(result.lines) :
             \A x \in Logins \cup Emails :
                result.lines[n] # Trailer("github-actions", Linked(x).slug)

\* The channels are scanned and github-actions was the author in all five.
C3_Witness ==
    /\ pc = "aggregated"
    /\ Cardinality(ChannelsOf(contributorData, "github-actions")) = 5

(* C4: a non-excluded login that authored a commit through a linked account *)
(* is after aggregation a member of committers only, whatever later channel *)
(* it also appears in, and its profile is the user object of its first      *)
(* commit.                                                                  *)
C4_CommitterOnly ==
    pc = "aggregated" =>
        \A login \in LinkedCommitters(contributorData) \ skippedUsers :
            /\ CategoriesOf(contributors, login) = { "committers" }
            /\ login \in DOMAIN userData
            /\ userData[login] = FirstCommitUser(contributorData, login)

\* A login with two commits carrying different user objects, that also
\* appears in two later channels.
C4_Witness ==
    /\ pc = "aggregated"
    /\ \E login \in Logins \ skippedUsers :
          /\ Cardinality(ChannelsOf(contributorData, login)) >= 3
          /\ \E m, n \in 1..Len(contributorData.commits) :
                /\ m < n
                /\ contributorData.commits[m].user # Null
                /\ contributorData.commits[n].user # Null
                /\ contributorData.commits[m].user.login = login
                /\ contributorData.commits[n].user.login = login
                /\ contributorData.commits[m].user # contributorData.commits[n].user

\* The lines of text from position a to position b.
Lines(text, a, b) == [ n \in 1..(b - a + 1) |-> text[a + n - 1] ]

Headers == { Header(t) : t \in Types }

\* The lines a category contributes to the text below its header: from the
\* line after the header to the end of the text or, when another section
\* follows, to the blank line that separates the two.
SectionBody(text, t) ==
    LET at   == CHOOSE n \in 1..Len(text) : text[n] = Header(t)
        next == { n \in (at + 1)..Len(text) : text[n] \in Headers }
        end  == IF next = {} THEN Len(text)
                ELSE (CHOOSE n \in next : \A m \in next : n <= m) - 2
    IN  Lines(text, at + 1, end)

\* The directory's answer holds a handle for identity k.
Resolved(data, k) == k \in DOMAIN data /\ data[k] # NotLinked

\* The trailers of the members of a category the directory resolved.
ResolvedTrailers(data, set) ==
    LET resolved == SelectSeq(set, LAMBDA k : Resolved(data, k))
    IN  [ n \in 1..Len(resolved) |-> Trailer(resolved[n], data[resolved[n]].slug) ]

Count(seq, x) == Cardinality({ n \in 1..Len(seq) : seq[n] = x })

(* C5: the text returned holds the header of a category if and only if the *)
(* category has a member.                                                   *)
C5_HeaderIffMembers ==
    result.kind = "text" =>
        \A t \in Types :
            Has(result.lines, Header(t)) <=> Len(contributors[t]) > 0

(* C6: a member the directory resolved has exactly one trailer in the       *)
(* section of its category and is not listed as unresolved; a member it did *)
(* not resolve is listed as unresolved once and adds no line, so that the   *)
(* section is its header followed by one line per resolved member.          *)
C6_OneLinePerResolvedMember ==
    result.kind = "text" =>
        \A t \in Types :
            Len(contributors[t]) > 0 =>
                /\ Count(result.lines, Header(t)) = 1
                /\ SectionBody(result.lines, t)
                      = ResolvedTrailers(wpOrgData, contributors[t])
                /\ \A k \in Range(contributors[t]) :
                      Count(unconnectedUsers, k)
                          = IF Resolved(wpOrgData, k) THEN 0 ELSE 1

\* The identities the contribution data names.
IdentitiesIn(d) ==
    LinkedCommitters(d)
        \cup { d.commits[k].email : k \in { n \in 1..Len(d.commits) : d.commits[n].user = Null } }
        \cup Range(d.reviews) \cup Range(d.comments)
        \cup IssueAuthors(d) \cup IssueCommenters(d)

(* C7: after the aggregation of a second invocation, the category sets and  *)
(* the profile table hold no identity that the second invocation's data     *)
(* does not name, and a login the data names is filed under a role it       *)
(* played in that data.  (The text is rendered from these sets and this     *)
(* table.)                                                                  *)
C7_NoCarryOver ==
    (runs = 2 /\ pc = "aggregated") =>
        /\ Range(contributors.committers) \cup Range(contributors.reviewers)
              \cup Range(contributors.commenters) \cup Range(contributors.reporters)
              \subseteq IdentitiesIn(contributorData)
        /\ DOMAIN userData \subseteq IdentitiesIn(contributorData)
        /\ \A login \in Logins \ skippedUsers :
              RolesPlayed(contributorData, login) # {} =>
                 /\ CategoriesOf(contributors, login) # {}
                 /\ CategoriesOf(contributors, login)
                       \subseteq RolesPlayed(contributorData, login)

IsLetterOrDigit(ch) == ch \in Letters \cup Digits

\* "foo.bar-baz"
FooBarBaz == << "f", "o", "o", ".", "b", "a", "r", "-", "b", "a", "z" >>

(* C8, as amended: escapeForGql resolves to "_" followed by the string with *)
(* every ".", "/" and "-" replaced by "_" and every other character         *)
(* unchanged; the result is one character longer than the string and does   *)
(* not start with a digit; when the string holds only letters, digits, ".", *)
(* "/", "-" and "_", the result holds only letters, digits and "_".  For    *)
(* "foo.bar-baz" the result is "_foo_bar_baz".                              *)
C8_ReplacesDotSlashHyphen ==
    /\ escaped # <<>> =>
          /\ Len(escaped) = Len(string) + 1
          /\ escaped[1] = "_"
          /\ ~ (escaped[1] \in Digits)
          /\ \A n \in 1..Len(string) :
                escaped[n + 1] = IF string[n] \in { ".", "/", "-" } THEN "_" ELSE string[n]
          /\ (\A n \in 1..Len(string) :
                 IsLetterOrDigit(string[n]) \/ string[n] \in { ".", "/", "-", "_" })
             => \A n \in 1..Len(escaped) :
                   IsLetterOrDigit(escaped[n]) \/ escaped[n] = "_"
    /\ escapeForGql(FooBarBaz)
          = << "_", "f", "o", "o", "_", "b", "a", "r", "_", "b", "a", "z" >>

\* A string of full length with two characters of the class and a letter.
C8_Witness ==
    /\ escaped # <<>>
    /\ Len(string) = MaxLen
    /\ \E m, n \in 1..Len(string) :
          m # n /\ string[m] \in { ".", "/" } /\ string[n] = "-"
    /\ \E n \in 1..Len(string) : string[n] \in Letters

(* C8, as claimed: escapeForGql resolves to "_" followed by the string with *)
(* every character that is not a letter or a digit replaced by "_", so that *)
(* the result holds only letters, digits and "_".                           *)
C8_ReplacesEveryNonAlphanumeric ==
    escaped # <<>> =>
        /\ Len(escaped) = Len(string) + 1
        /\ escaped[1] = "_"
        /\ \A n \in 1..Len(string) :
              escaped[n + 1] = IF IsLetterOrDigit(string[n]) THEN string[n] ELSE "_"
        /\ \A n \in 1..Len(escaped) : IsLetterOrDigit(escaped[n]) \/ escaped[n] = "_"

CallOrder == << "getContributorData", "getUsersData", "getWPOrgData", "commentProps" >>

CallRank(call) == CHOOSE k \in 1..Len(CallOrder) : CallOrder[k] = call

Awaiting ==
    pc \in { "awaitContributorData", "awaitUsersData", "awaitWPOrgData",
             "awaitCommentProps" }

LastCall == calls[Len(calls)]

\* The call a position of the run waits for.
Awaited ==
    CASE pc = "awaitContributorData" -> "getContributorData"
      [] pc = "awaitUsersData"       -> "getUsersData"
      [] pc = "awaitWPOrgData"       -> "getWPOrgData"
      [] pc = "awaitCommentProps"    -> "commentProps"

\* The calls issued are in the order of CallOrder, each at most once, the
\* contribution query first; the comment is posted only with what
\* getContributorsList returned; a run that failed before the comment
\* returned nothing and posted nothing; a run that failed never ends well.
C9_State ==
    /\ \A m, n \in 1..Len(calls) : m < n => CallRank(calls[m]) < CallRank(calls[n])
    /\ Len(calls) > 0 => calls[1] = "getContributorData"
    /\ Awaiting => Len(calls) > 0 /\ LastCall = Awaited
    /\ Has(calls, "commentProps") =>
          result.kind \in { "text", "undefined" } /\ commentArg = result
    /\ result.kind = "text" => Has(calls, "getWPOrgData")
    /\ (pc = "failed" /\ LastCall # "commentProps") =>
          result.kind = "none" /\ commentArg.kind = "none"
    /\ pc = "done" => LastCall = "commentProps"

\* A call is issued only when no call is pending and the run has not failed,
\* and a failed run takes no further step.
C9_Step ==
    /\ calls' # calls =>
          /\ ~ Awaiting
          /\ pc # "failed"
          /\ \E call \in Range(CallOrder) : calls' = Append(calls, call)
    /\ pc # "failed"

(* C9: the external calls of a run are issued in the order contribution     *)
(* query, profile backfill (if any), directory lookup, comment; each at most *)
(* once; each only after the one before it has completed; when one fails    *)
(* the run ends in failure with no later call, no text and no comment.      *)
C9_CallsInOrder == [] C9_State /\ [][C9_Step]_vars

\* The directory lookup failed, after the backfill had answered.
C9_Witness ==
    /\ pc = "failed"
    /\ calls = << "getContributorData", "getUsersData", "getWPOrgData" >>

\* The run has gone past the point where the directory lookup is decided.
Collected ==
    \/ pc \in { "awaitWPOrgData", "render", "returned", "awaitCommentProps", "done" }
    \/ pc = "failed" /\ LastCall \in { "getWPOrgData", "commentProps" }

\* All members of the four categories, in category order.
Gathered ==
    contributors.committers \o contributors.reviewers
        \o contributors.commenters \o contributors.reporters

(* C10: the directory lookup is issued at most once; when issued, it is     *)
(* given all members of the four categories in category order, each once;   *)
(* once the run is past that point it was issued if and only if an identity *)
(* was gathered; with none gathered, getContributorsList returns undefined  *)
(* without a failure of its own.                                            *)
C10_LookupIffGathered ==
    /\ Count(calls, "getWPOrgData") <= 1
    /\ Has(calls, "getWPOrgData") =>
          /\ githubUsers = Gathered
          /\ Len(githubUsers) > 0
          /\ \A x \in Range(githubUsers) : Count(githubUsers, x) = 1
    /\ Collected => (Has(calls, "getWPOrgData") <=> Len(Gathered) > 0)
    /\ (Collected /\ Len(Gathered) = 0) =>
          /\ result.kind = "undefined"
          /\ pc = "failed" => LastCall = "commentProps"

\* The lookup is issued for a commit-e-mail identity and two logins.
C10_Witness ==
    /\ pc = "awaitWPOrgData"
    /\ Len(githubUsers) >= 3
    /\ \E e \in Emails : Has(githubUsers, e)
    /\ Len(contributors.committers) < Len(githubUsers)

\* The scan of the four channels is complete.
PastScan ==
    pc \in { "aggregated", "awaitUsersData", "collect", "awaitWPOrgData",
             "render", "returned", "awaitCommentProps", "done" }

\* The node lists other than the commits.
NeededPaths(d) == d.missing \ { << "commits" >> }

(* C11, as amended: a response without its reviews, comments or             *)
(* closingIssuesReferences list, or without the comments list of a linked   *)
(* issue, makes getContributorsList fail at the point where the list is     *)
(* read: the scan is never completed, nothing is returned and no comment is *)
(* posted.  A response without its commits list does not: the list is read  *)
(* as empty, no committer is filed and the run goes on.                     *)
C11_MissingListFails ==
    /\ NeededPaths(contributorData) # {} =>
          /\ ~ PastScan
          /\ result.kind = "none"
          /\ ~ Has(calls, "commentProps")
    /\ pc \in { "reviews", "comments", "issues", "issueComments" } =>
          << "reviews" >> \notin contributorData.missing
    /\ pc \in { "comments", "issues", "issueComments" } =>
          << "comments" >> \notin contributorData.missing
    /\ pc \in { "issues", "issueComments" } =>
          << "closingIssuesReferences" >> \notin contributorData.missing
    /\ (pc = "issueComments" /\ j > 1) =>
          << "closingIssuesReferences", i >> \notin contributorData.missing
    /\ (PastScan /\ << "commits" >> \in contributorData.missing) =>
          contributors.committers = <<>>

\* The run failed at the comments of a linked issue, the author of which is
\* already filed.
C11_Witness ==
    /\ pc = "failed"
    /\ << "closingIssuesReferences", 1 >> \in contributorData.missing
    /\ contributors.reporters # <<>>

(* C11, as claimed: a response that is missing any one of the node lists,   *)
(* the commits included, makes getContributorsList fail: no text is         *)
(* returned.                                                                *)
C11_AnyMissingListFails ==
    contributorData.missing # {} =>
        /\ ~ PastScan
        /\ result.kind = "none"

\* reviewers, commenters and reporters taken together.
BackfillUnion ==
    Range(contributors.reviewers) \cup Range(contributors.commenters)
        \cup Range(contributors.reporters)

\* The run is past the point where the batch profile request is decided.
PastBackfillDecision ==
    pc \in { "collect", "awaitWPOrgData", "render", "returned",
             "awaitCommentProps", "done" }

C12_State ==
    /\ Count(calls, "getUsersData") <= 1
    /\ Has(calls, "getUsersData") =>
          /\ BackfillUnion # {}
          /\ Range(usersRequested) = BackfillUnion
          /\ Len(usersRequested) = Cardinality(BackfillUnion)
          /\ Range(usersRequested) \cap Range(contributors.committers) = {}
          /\ Range(usersRequested) \cap Emails = {}
    /\ PastBackfillDecision =>
          (Has(calls, "getUsersData") <=> BackfillUnion # {})
    /\ pc = "awaitUsersData" => LastCall = "getUsersData"

C12_Step ==
    (pc = "awaitUsersData" /\ pc' = "collect") =>
        \A k \in Range(contributors.committers) :
            /\ k \in DOMAIN userData => (k \in DOMAIN userData' /\ userData'[k] = userData[k])
            /\ k \notin DOMAIN userData => k \notin DOMAIN userData'

(* C12: the batch profile request (gh.getUsersData) is issued if and only   *)
(* if reviewers, commenters and reporters together are not empty; it is     *)
(* issued at most once, asks for exactly the members of that union, each    *)
(* once, none of them a committer or a commit e-mail identity, and merging  *)
(* its response leaves the profile of every committer as it was.            *)
C12_BackfillEveryoneElse == [] C12_State /\ [][C12_Step]_vars

\* The response of a batch request for bob was merged while alice, a
\* committer, keeps the profile her commit carried.
C12_Witness ==
    /\ pc = "collect"
    /\ Has(calls, "getUsersData")
    /\ "alice" \in Range(contributors.committers)
    /\ "alice" \in DOMAIN userData
    /\ userData["alice"] = User("alice", "n2")
    /\ "bob" \in Range(usersRequested)
    /\ "bob" \in DOMAIN userData

(* C13: within one batch profile request, two different logins get two     *)
(* different aliases.                                                       *)
C13_DistinctAliases ==
    pc = "awaitUsersData" =>
        \A k, l \in 1..Len(usersRequested) :
            usersRequested[k] # usersRequested[l] => escaped[k] # escaped[l]

(* C14: in run() of src/index.js the skip policy decides insertion by the  *)
(* boolean value of the predicate.  When the four channels are scanned,     *)
(* every non-excluded login that authored a commit through a linked account *)
(* is a committer with its profile stored, and every non-excluded login     *)
(* that appears in a channel is filed, in a category of a role it played.   *)
C14_InsertsWhenNotSkipped ==
    pc = "aggregated" =>
        \A login \in Logins \ skippedUsers :
            /\ login \in LinkedCommitters(contributorData) =>
                  /\ Has(contributors.committers, login)
                  /\ login \in DOMAIN userData
            /\ RolesPlayed(contributorData, login) # {} =>
                  /\ CategoriesOf(contributors, login) # {}
                  /\ CategoriesOf(contributors, login)
                         \subseteq RolesPlayed(contributorData, login)

===========================================================================
